---- MODULE Spec2Model ----
(***************************************************************************)
(* Verification model of llama_jax: the model forward pass (model.py,      *)
(* layer.py) with its per-layer key/value cache, and token sampling        *)
(* (temperature / top-k / top-p / weighted choice) of model.py.            *)
(*                                                                         *)
(* Tensors are modelled by what the claims observe of them: an array by    *)
(* its rank and its sequence length, a layer's cache entry by its seen     *)
(* length, a probability row by exact rationals (integer numerators over   *)
(* one common denominator).                                                *)
(***************************************************************************)
EXTENDS Integers, Sequences, FiniteSets, TLC

(* ---------------------------- bounds ----------------------------------- *)
MaxLayers == 3
MaxSeen == 3
MaxQuery == 3
MaxRank == 3
VocabSize == 3      \* logits.shape[1]
MaxBatch == 2       \* logits.shape[0] ranges over 1..MaxBatch
PGrid == 4          \* top_p ranges over {0, 1/PGrid, .., (PGrid + 1)/PGrid}
ProbDen == 7        \* probability rows given directly are in units of 1/ProbDen

VARIABLES
    n_layers,   \* len(state.layers) of the Model the caller created
    kv_cache,   \* the KVCache the caller holds between forward calls
    f_call,     \* arguments of the last model.forward call
    f_ret,      \* outcome of the last model.forward call
    s_pc,       \* "ready" before a sampling call, "done" after it
    s_in,       \* arguments of the sampling call
    s_out       \* outcome of the sampling call

fvars == << n_layers, kv_cache, f_call, f_ret >>
svars == << s_pc, s_in, s_out >>
vars == << n_layers, kv_cache, f_call, f_ret, s_pc, s_in, s_out >>

(* ------------------------- python values ------------------------------- *)
\* A jax Array: rank (ndim) and sequence length.
ArrayOf(ndim, length) ==
    [kind |-> "Array", ndim |-> ndim, length |-> length, seen |-> 0]

\* A LayerKVCache: key and value tensors of equal seen length.
LayerKVCache(seen) ==
    [kind |-> "LayerKVCache", ndim |-> 0, length |-> 0, seen |-> seen]

NoValue == [kind |-> "None", ndim |-> 0, length |-> 0, seen |-> 0]

\* ll.kv_cache.create(config): one empty LayerKVCache per layer.
KVCacheCreate(n) == [i \in 1..n |-> LayerKVCache(0)]

\* ll.kv_cache.length(kv_cache): the seen length of a layer's entry.
KVCacheLength(c) == c[1].seen

\* An optional argument: None, or a given value.
None == [some |-> FALSE]
Some(v) == [some |-> TRUE, v |-> v]

\* default_arg(v, default): the default when v is None.
default_arg(v, default) == IF v.some THEN v.v ELSE default

(* --------------------------- collaborators ----------------------------- *)
\* ll.embeddings.forward: int tokens [bs, n] -> float [bs, n, d_model].
EmbeddingsForward(tokens) == ArrayOf(tokens.ndim + 1, tokens.length)

\* ll.ffn.forward: x -> x' of identical shape.
FFNForward(x) == x

\* ll.head.forward: x -> logits [bs, n, vocab_size].
HeadForward(x) == ArrayOf(3, x.length)

\* ll.attention.forward(config, state, rope, mask, kv_cache, x): asserts a
\* rank-3 x, appends the new keys/values to the layer's cache entry.
AttentionForward(kv_cache_, x) ==
    IF kv_cache_.kind = "LayerKVCache" /\ x.kind = "Array" /\ x.ndim = 3
    THEN [ok |-> TRUE, x |-> x,
          kv_cache |-> LayerKVCache(kv_cache_.seen + x.length)]
    ELSE [ok |-> FALSE, x |-> x, kv_cache |-> kv_cache_]

(* ----------------------------- layer.py -------------------------------- *)
\* `assert x.ndim == 3` of layer.forward: holds of a rank-3 Array only (a
\* LayerKVCache is a tuple of key/value tensors and has no rank 3).
NdimIs3(x) == x.kind = "Array" /\ x.ndim = 3

\* layer.forward(config, state, rope, mask, x, kv_cache)
\* (`asserted` is the value the sanity check examined.)
LayerForward(x, kv_cache_) ==
    IF ~NdimIs3(x)
    THEN [ok |-> FALSE, x |-> x, kv_cache |-> kv_cache_, asserted |-> x]
    ELSE LET \* ll.attention.forward(config, state.attention, rope, mask, x, kv_cache)
             a == AttentionForward(x, kv_cache_)
         IN  [ok |-> a.ok, x |-> IF a.ok THEN FFNForward(a.x) ELSE a.x,
              kv_cache |-> a.kv_cache, asserted |-> x]

(* ----------------------------- model.py -------------------------------- *)
\* One iteration of the layer loop of model.forward:
\*     x, kvc[i] = ll.layer.forward(config, layer, rope, mask, kvc[i], x)
LayerCall(kvc_i, x) == LayerForward(kvc_i, x)

\* The layer loop from layer i on.  `checked` collects, per executed layer,
\* the value layer.forward's sanity check examined (its parameter x).
RECURSIVE ApplyLayers(_, _, _, _, _)
ApplyLayers(i, n, x, kvc, checked) ==
    IF i > n
    THEN [ok |-> TRUE, x |-> x, kvc |-> kvc, checked |-> checked, at |-> 0]
    ELSE LET r == LayerCall(kvc[i], x)
             seenx == Append(checked, r.asserted)
         IN  IF ~r.ok
             THEN [ok |-> FALSE, x |-> x, kvc |-> kvc, checked |-> seenx, at |-> i]
             ELSE ApplyLayers(i + 1, n, r.x, [kvc EXCEPT ![i] = r.kv_cache], seenx)

\* model.forward(config, state, tokens, *, kv_cache=None); `arg` is the
\* kv_cache argument, None when the caller supplied none.
ModelForward(n, tokens, arg) ==
    LET external_cache == arg.some
        cache == default_arg(arg, KVCacheCreate(n))
    IN  IF tokens.ndim # 2
        THEN [kind |-> "error", site |-> "model.assert", external |-> external_cache,
              n |-> 0, x |-> NoValue, kv_cache |-> cache, checked |-> << >>, at |-> 0]
        ELSE
        LET query_length == tokens.length
            nseq == KVCacheLength(cache) + query_length
            x0 == EmbeddingsForward(tokens)
            r == ApplyLayers(1, n, x0, cache, << >>)
        IN  IF ~r.ok
            THEN [kind |-> "error", site |-> "layer.forward", external |-> external_cache,
                  n |-> nseq, x |-> r.x, kv_cache |-> r.kvc, checked |-> r.checked,
                  at |-> r.at]
            ELSE [kind |-> IF external_cache THEN "logits+cache" ELSE "logits",
                  site |-> "return", external |-> external_cache,
                  n |-> nseq, x |-> HeadForward(r.x), kv_cache |-> r.kvc,
                  checked |-> r.checked, at |-> 0]

(* ------------------------ model.py: sampling --------------------------- *)
\* Indices (token ids, ranks, thresholds) are 0-based as in the source; the
\* entry of index i of a row s is s[i + 1].

DefaultTopK == 50

\* 0.6 and 0.9 as exact rationals << numerator, denominator >>.
DefaultTemperature == << 3, 5 >>
DefaultTopP == << 9, 10 >>

Min(a, b) == IF a < b THEN a ELSE b

\* A sequence given as a function, as an explicit tuple of values.
Tuple(s) == s \o << >>

RECURSIVE SumTo(_, _)
SumTo(s, n) == IF n = 0 THEN 0 ELSE SumTo(s, n - 1) + s[n]

\* jnp.sum over a row.
Sum(s) == SumTo(s, Len(s))

\* row.cumsum()
CumSum(s) == Tuple([i \in 1..Len(s) |-> SumTo(s, i)])

\* ArgMax taking the smallest entry for the largest.
ArgMaxOfNegated(s) ==
    CHOOSE i \in 0..(Len(s) - 1) :
        /\ \A j \in 0..(Len(s) - 1) : s[j + 1] >= s[i + 1]
        /\ \A j \in 0..(i - 1) : s[j + 1] > s[i + 1]

\* jnp.argmax over a row: the index of the first maximal entry.
ArgMax(s) ==
    CHOOSE i \in 0..(Len(s) - 1) :
        /\ \A j \in 0..(Len(s) - 1) : s[j + 1] <= s[i + 1]
        /\ \A j \in 0..(i - 1) : s[j + 1] < s[i + 1]

\* logits / temperature, for one logit (the sets of logits and temperatures
\* keep the quotient an integer).
Scale(l, t) == IF t[1] > 0 THEN (l * t[2]) \div t[1] ELSE (-(l * t[2])) \div (-t[1])

RowMin(s) == CHOOSE m \in {s[i] : i \in 1..Len(s)} : \A i \in 1..Len(s) : m <= s[i]

\* softmax over a row: positive, strictly increasing in the logit, normalised.
\* The exponential is taken to base 2 so that probabilities are rationals:
\* entry i is num[i] / den.
Softmax(s) ==
    LET m == RowMin(s)
        w == Tuple([i \in 1..Len(s) |-> 2 ^ (s[i] - m)])
    IN  [num |-> w, den |-> Sum(w)]

\* ArgSortDescending without descending=True.
ArgSortAscending(s) ==
    LET before(j, i) == s[j + 1] < s[i + 1] \/ (s[j + 1] = s[i + 1] /\ j < i)
        rank(i) == Cardinality({j \in 0..(Len(s) - 1) : before(j, i)})
    IN  Tuple([r \in 1..Len(s) |-> CHOOSE i \in 0..(Len(s) - 1) : rank(i) = r - 1])

\* jnp.argsort(row, descending=True): the permutation that sorts the row in
\* descending order, equal entries in their original order.
ArgSortDescending(s) ==
    LET before(j, i) == s[j + 1] > s[i + 1] \/ (s[j + 1] = s[i + 1] /\ j < i)
        rank(i) == Cardinality({j \in 0..(Len(s) - 1) : before(j, i)})
    IN  Tuple([r \in 1..Len(s) |-> CHOOSE i \in 0..(Len(s) - 1) : rank(i) = r - 1])

\* jnp.take_along_axis(row, indices) for one row.
TakeAlong(s, indices) == Tuple([r \in 1..Len(indices) |-> s[indices[r] + 1]])

\* KeyMissing without the temperature test.
KeyMissingAtAnyTemperature(key, temperature) == ~key.some

\* model.py:136, the validation of sample_tokens.
KeyMissing(key, temperature) == ~key.some /\ temperature[1] # 0

\* SampleTopK without its sanity check.
SampleTopKUnchecked(probs, top_k) ==
    LET k == default_arg(top_k, DefaultTopK)
        sliced == Tuple([b \in 1..Len(probs) |->
                      [num |-> SubSeq(probs[b].num, 1, Min(k, Len(probs[b].num))),
                       den |-> probs[b].den]])
    IN  [ok |-> TRUE, probs |-> sliced]

\* sample_top_k(probs, top_k) over a batch of rows.
SampleTopK(probs, top_k) ==
    LET k == default_arg(top_k, DefaultTopK)
        sliced == Tuple([b \in 1..Len(probs) |->
                      [num |-> SubSeq(probs[b].num, 1, Min(k, Len(probs[b].num))),
                       den |-> probs[b].den]])
    IN  [ok |-> \A b \in 1..Len(probs) : Len(sliced[b].num) = k, probs |-> sliced]

\* cumulative_mask of sample_top_p for one row: cumsum >= top_p, as 0/1.
CumulativeMask(row, p) ==
    LET c == CumSum(row.num)
    IN  Tuple([i \in 1..Len(row.num) |-> IF c[i] * p[2] >= p[1] * row.den THEN 1 ELSE 0])

\* threshold of sample_top_p for one row.
Threshold(row, top_p) == ArgMax(CumulativeMask(row, default_arg(top_p, DefaultTopP)))

\* TopPMask with a strict comparison.
TopPMaskStrict(index, threshold) == IF index < threshold THEN 1 ELSE 0

\* mask of sample_top_p: indices <= threshold.
TopPMask(index, threshold) == IF index <= threshold THEN 1 ELSE 0

\* sample_top_p(probs, top_p) over a batch of rows.
SampleTopP(probs, top_p) ==
    Tuple([b \in 1..Len(probs) |->
        LET threshold == Threshold(probs[b], top_p)
        IN  [num |-> Tuple([i \in 1..Len(probs[b].num) |->
                               probs[b].num[i] * TopPMask(i - 1, threshold)]),
             den |-> probs[b].den]])

\* random.split(key, n): n successor states derived from key.
Split(key, n) == Tuple([i \in 1..n |-> key * (MaxBatch + 2) + i])

\* ChoiceSupport of a draw that ignores the weights p.
ChoiceSupportUnweighted(p) == {i \in 0..(Len(p.num) - 1) : TRUE}

\* random.choice(key, pool, p=probs) for one row: the indices it can return,
\* those of positive weight; any index when the weights are 0 / 0.
ChoiceSupport(p) == {i \in 0..(Len(p.num) - 1) : p.den = 0 \/ p.num[i + 1] > 0}

\* select_index for one row, up to the draw: probs / jnp.sum(probs).
Redistribute(row) == [num |-> row.num, den |-> Sum(row.num)]

\* select_index over a batch (vmap): the index vectors it can return.
SelectIndex(probs) ==
    LET dist == Tuple([b \in 1..Len(probs) |-> Redistribute(probs[b])])
    IN  {Tuple(sel) : sel \in
            {f \in [1..Len(probs) -> 0..(VocabSize - 1)] :
                \A b \in 1..Len(probs) : f[b] \in ChoiceSupport(dist[b])}}

NoOut == [kind |-> "none", tokens |-> << >>, key |-> None, indices |-> << >>,
          sorted |-> << >>, probs_k |-> << >>, probs_p |-> << >>,
          dist |-> << >>, selected |-> << >>]

\* Lines 159-167 of sample_tokens: top-k then top-p over a batch of
\* descending-sorted rows, with the divisor select_index will use (`dist`).
TopKTopP(sorted, top_k, top_p) ==
    LET k == SampleTopK(sorted, top_k)
        pp == SampleTopP(k.probs, top_p)
    IN  IF ~k.ok
        THEN [NoOut EXCEPT !.kind = "AssertionError", !.sorted = sorted,
                           !.probs_k = k.probs]
        ELSE [NoOut EXCEPT !.kind = "ranked", !.sorted = sorted,
                           !.probs_k = k.probs, !.probs_p = pp,
                           !.dist = Tuple([b \in 1..Len(pp) |-> Redistribute(pp[b])])]

\* sample_tokens up to the draw (lines 125-167): validation, the greedy
\* return, temperature, ranking, top-k and top-p.
Ranked(logits, key, temperature_, top_k, top_p) ==
    LET n_batches == Len(logits)
        temperature == default_arg(temperature_, DefaultTemperature)
    IN  IF KeyMissing(key, temperature)
        THEN [NoOut EXCEPT !.kind = "ValueError"]
        ELSE IF temperature[1] = 0
        THEN [NoOut EXCEPT !.kind = "tokens",
                           !.tokens = Tuple([b \in 1..n_batches |-> ArgMax(logits[b])]),
                           !.key = key]
        ELSE
        LET scaled == Tuple([b \in 1..n_batches |->
                          Tuple([i \in 1..Len(logits[b]) |->
                                    Scale(logits[b][i], temperature)])])
            probs == Tuple([b \in 1..n_batches |-> Softmax(scaled[b])])
            indices == Tuple([b \in 1..n_batches |-> ArgSortDescending(probs[b].num)])
            sorted == Tuple([b \in 1..n_batches |->
                          [num |-> TakeAlong(probs[b].num, indices[b]),
                           den |-> probs[b].den]])
        IN  [TopKTopP(sorted, top_k, top_p) EXCEPT !.indices = indices]

\* sample_tokens from the draw on (lines 169-181), `selected` being the
\* index vector select_index returned.
Selected(r, key, selected) ==
    IF r.kind # "ranked" THEN r
    ELSE LET n_batches == Len(r.indices)
             keys == Split(key.v, n_batches + 1)
         IN  [r EXCEPT !.kind = "tokens", !.selected = selected,
                       !.key = Some(keys[1]),
                       !.tokens = Tuple([b \in 1..n_batches |->
                                      TakeAlong(r.indices[b], << selected[b] >>)[1]])]

\* The index vectors the draw of a call can return; << >> when it draws none.
Draws(r) == IF r.kind = "ranked" THEN SelectIndex(r.probs_p) ELSE {<< >>}

\* sample_tokens(logits, key, temperature, top_k, top_p)
SampleTokens(logits, key, temperature_, top_k, top_p, selected) ==
    Selected(Ranked(logits, key, temperature_, top_k, top_p), key, selected)

(* --------------------------- forward: machine -------------------------- *)
NoCall == [made |-> FALSE, tokens |-> ArrayOf(0, 0), supplied |-> FALSE, prior |-> 0]

NoRet == [kind |-> "none", site |-> "none", external |-> FALSE, n |-> 0,
          x |-> NoValue, kv_cache |-> << >>, checked |-> << >>, at |-> 0]

NoIn == [op |-> "none", logits |-> << >>, probs |-> << >>, key |-> None,
         temperature |-> None, top_k |-> None, top_p |-> None]

SIdle == s_pc = "idle" /\ s_in = NoIn /\ s_out = NoOut

FIdle == n_layers = 1 /\ kv_cache = KVCacheCreate(1) /\ f_call = NoCall /\ f_ret = NoRet

FInit ==
    /\ n_layers \in 1..MaxLayers
    /\ \E p \in 0..MaxSeen : kv_cache = [i \in 1..n_layers |-> LayerKVCache(p)]
    /\ f_call = NoCall
    /\ f_ret = NoRet
    /\ SIdle

\* A caller runs model.forward on a token batch, with or without its cache,
\* and keeps the returned cache when one is returned.
Forward(ndim, length, supplied) ==
    LET tokens == ArrayOf(ndim, length)
        r == ModelForward(n_layers, tokens, IF supplied THEN Some(kv_cache) ELSE None)
    IN  /\ KVCacheLength(kv_cache) + length <= MaxSeen + MaxQuery
        /\ f_call' = [made |-> TRUE, tokens |-> tokens, supplied |-> supplied,
                      prior |-> KVCacheLength(kv_cache)]
        /\ f_ret' = r
        /\ kv_cache' = IF r.kind = "logits+cache" THEN r.kv_cache ELSE kv_cache
        /\ UNCHANGED << n_layers, s_pc, s_in, s_out >>

FNext ==
    \E ndim \in 1..MaxRank, length \in 1..MaxQuery, supplied \in BOOLEAN :
        Forward(ndim, length, supplied)

SpecForward == FInit /\ [][FNext]_vars

(* --------------------------- sampling: machine ------------------------- *)
\* The row s shifted cyclically by d places.
Shifted(s, d) == Tuple([i \in 1..Len(s) |-> s[((i - 1 + d) % Len(s)) + 1]])

LogitRows == {Tuple(r) : r \in [1..VocabSize -> {0, 3, 6}]}

\* Batches of logits of 1..MaxBatch rows: row b is the first row shifted by
\* b - 1 places, so that the rows of a batch sort by different permutations.
LogitBatches ==
    {Tuple([b \in 1..n |-> Shifted(r, b - 1)]) : r \in LogitRows, n \in 1..MaxBatch}

\* Rows of positive probabilities in descending order, in units of 1/ProbDen.
ProbRows ==
    {[num |-> Tuple(q), den |-> ProbDen] : q \in
        {q \in [1..VocabSize -> 1..ProbDen] :
            /\ Sum(q) = ProbDen
            /\ \A i \in 1..(VocabSize - 1) : q[i] >= q[i + 1]}}

ProbBatches == UNION {{Tuple(f) : f \in [1..n -> ProbRows]} : n \in 1..MaxBatch}

Keys == {None, Some(1)}

Temperatures ==
    {None, Some(<< 0, 1 >>), Some(<< 1, 1 >>), Some(<< -1, 1 >>), Some(<< 3, 1 >>)}

TopKs == {None} \cup {Some(k) : k \in 1..(VocabSize + 1)}

TopPs == {None} \cup {Some(<< a, PGrid >>) : a \in 0..(PGrid + 1)}

SInit ==
    /\ FIdle
    /\ s_pc = "ready"
    /\ s_out = NoOut
    /\ \/ \E logits \in LogitBatches, key \in Keys, temperature \in Temperatures,
             top_k \in TopKs, top_p \in TopPs :
             s_in = [op |-> "sample_tokens", logits |-> logits, probs |-> << >>,
                     key |-> key, temperature |-> temperature,
                     top_k |-> top_k, top_p |-> top_p]
       \/ \E probs \in ProbBatches, top_k \in TopKs, top_p \in TopPs :
             s_in = [op |-> "truncate", logits |-> << >>, probs |-> probs,
                     key |-> None, temperature |-> None,
                     top_k |-> top_k, top_p |-> top_p]

\* A caller samples the next token of every row of a batch of logits.
CallSampleTokens ==
    /\ s_pc = "ready"
    /\ s_in.op = "sample_tokens"
    /\ LET r == Ranked(s_in.logits, s_in.key, s_in.temperature, s_in.top_k, s_in.top_p)
       IN  \E selected \in Draws(r) : s_out' = Selected(r, s_in.key, selected)
    /\ s_pc' = "done"
    /\ UNCHANGED << s_in, n_layers, kv_cache, f_call, f_ret >>

\* The top-k, top-p and draw steps applied to a batch of sorted rows.
CallTruncated ==
    /\ s_pc = "ready"
    /\ s_in.op = "truncate"
    /\ LET r == TopKTopP(s_in.probs, s_in.top_k, s_in.top_p)
       IN  \E selected \in Draws(r) :
              s_out' = IF r.kind = "ranked" THEN [r EXCEPT !.selected = selected] ELSE r
    /\ s_pc' = "done"
    /\ UNCHANGED << s_in, n_layers, kv_cache, f_call, f_ret >>

SNext == CallSampleTokens \/ CallTruncated

SpecSample == SInit /\ [][SNext]_vars

(* ------------------------------ claims --------------------------------- *)
\* A forward call on valid (rank-2) tokens has been made.
ValidForward == f_call.made /\ f_call.tokens.ndim = 2

\* C1: a forward call given a cache whose layers all have seen length P and
\* a token batch of query length L leaves the caller with a cache whose
\* every layer has seen length P + L.
C1_EveryLayerExtended ==
    (ValidForward /\ f_call.supplied) =>
        /\ f_ret.kind = "logits+cache"
        /\ \A i \in 1..n_layers :
              /\ f_ret.kv_cache[i].seen = f_call.prior + f_call.tokens.length
              /\ kv_cache[i].seen = f_call.prior + f_call.tokens.length

\* C2: forward returns the logits alone exactly when no kv_cache was
\* supplied, and the pair (logits, cache) exactly when one was supplied.
C2_CacheArgumentSwitchesResult ==
    ValidForward =>
        /\ (f_ret.kind = "logits") <=> ~f_call.supplied
        /\ (f_ret.kind = "logits+cache") <=> f_call.supplied

\* C8: at every layer step of a forward call on rank-2 tokens the value
\* layer.forward checks with its rank-3 assertion is the rank-3 activations
\* tensor (not the layer's cache entry), and the pass reaches the head.
C8_LayerReceivesActivations ==
    ValidForward =>
        /\ \A i \in 1..Len(f_ret.checked) : NdimIs3(f_ret.checked[i])
        /\ Len(f_ret.checked) = n_layers
        /\ f_ret.site = "return"

\* The sampling call has finished / was a sample_tokens call.
Sampled == s_pc = "done" /\ s_in.op = "sample_tokens"

\* The temperature sample_tokens works with.
Effective == default_arg(s_in.temperature, DefaultTemperature)

\* The value of the 0-based index i of row s.
At(s, i) == s[i + 1]

\* C3: with temperature 0, sample_tokens returns for each batch row the
\* index of the row's maximum logit, whatever top_k, top_p and the rng state,
\* and returns the incoming rng state.
C3_GreedyAtZeroTemperature ==
    (Sampled /\ Effective[1] = 0) =>
        /\ s_out.kind = "tokens"
        /\ Len(s_out.tokens) = Len(s_in.logits)
        /\ \A b \in 1..Len(s_in.logits) :
              /\ s_out.tokens[b] \in 0..(VocabSize - 1)
              /\ \A j \in 0..(VocabSize - 1) :
                    At(s_in.logits[b], j) <= At(s_in.logits[b], s_out.tokens[b])
        /\ s_out.key.some = s_in.key.some
        /\ s_in.key.some => s_out.key.v = s_in.key.v

\* C3 witness: a greedy call whose maximum is not the first token, made with
\* a top_k beyond the vocabulary.
C3_Witness ==
    /\ Sampled /\ Effective[1] = 0 /\ s_in.key.some
    /\ s_in.top_k.some /\ s_in.top_k.v > VocabSize
    /\ s_out.kind = "tokens" /\ s_out.tokens[1] = VocabSize - 1

\* C4: without an rng state sample_tokens fails with the usage error exactly
\* when the effective temperature is non-zero, returns the greedy result
\* when it is 0, and fails before any sampling step.
C4_KeyRequiredUnlessGreedy ==
    (Sampled /\ ~s_in.key.some) =>
        /\ (s_out.kind = "ValueError") <=> (Effective[1] # 0)
        /\ (Effective[1] = 0) => s_out.kind = "tokens"
        /\ (s_out.kind = "ValueError") =>
              /\ Len(s_out.sorted) = 0 /\ Len(s_out.probs_k) = 0
              /\ Len(s_out.probs_p) = 0 /\ Len(s_out.selected) = 0
              /\ Len(s_out.tokens) = 0

\* C4 witness: the default temperature without an rng state.
C4_Witness ==
    /\ Sampled /\ ~s_in.key.some /\ ~s_in.temperature.some
    /\ s_out.kind = "ValueError"

\* The top-k step was applied.
TopKApplied == s_pc = "done" /\ Len(s_out.sorted) > 0

\* The top_k the top-k step works with.
EffectiveTopK == default_arg(s_in.top_k, DefaultTopK)

\* C5 (as claimed): for every top_k, the default included, greater than or
\* equal to the vocabulary size, the top-k step returns the sorted rows
\* unchanged and does not fail.
C5_NoTruncationAtOrAboveVocab ==
    (TopKApplied /\ EffectiveTopK >= VocabSize) =>
        /\ s_out.kind # "AssertionError"
        /\ s_out.probs_k = s_out.sorted

\* C5 (amended): for top_k equal to the vocabulary size the top-k step
\* returns the sorted rows unchanged and does not fail; for every top_k
\* greater than the vocabulary size, the default included, it fails its
\* sanity assertion.
C5_NoTruncationAtVocab ==
    TopKApplied =>
        /\ (EffectiveTopK = VocabSize) =>
              s_out.kind # "AssertionError" /\ s_out.probs_k = s_out.sorted
        /\ (EffectiveTopK > VocabSize) => s_out.kind = "AssertionError"

\* C5 witness: top_k equal to the vocabulary size over a two-row batch.
C5_Witness ==
    /\ TopKApplied /\ s_in.top_k.some /\ s_in.top_k.v = VocabSize
    /\ Len(s_out.sorted) = 2 /\ s_out.probs_k = s_out.sorted
    /\ s_out.kind \in {"tokens", "ranked"}

\* The rows reached the renormalisation of select_index.
Renormalised == s_pc = "done" /\ Len(s_out.dist) > 0

\* C6: the distribution that reaches the renormalisation keeps its rank-0
\* entry, so the renormalisation divisor is strictly positive.
C6_FirstEntrySurvives ==
    Renormalised =>
        \A b \in 1..Len(s_out.dist) :
            /\ s_out.probs_p[b].num[1] = s_out.sorted[b].num[1]
            /\ s_out.probs_p[b].num[1] > 0
            /\ s_out.dist[b].den > 0
            /\ s_out.dist[b].den = Sum(s_out.probs_p[b].num)

\* C6 witness: top_p met by the very first entry, every later one zeroed.
C6_Witness ==
    /\ Renormalised /\ EffectiveTopK >= 2
    /\ \A i \in 2..Len(s_out.probs_p[1].num) : s_out.probs_p[1].num[i] = 0
    /\ s_out.dist[1].den = s_out.sorted[1].num[1]

\* Token i of row b is at least as probable as token j under the effective
\* temperature (softmax is increasing in logit / temperature).
AsProbable(b, i, j) ==
    IF Effective[1] > 0
    THEN At(s_in.logits[b], i) >= At(s_in.logits[b], j)
    ELSE At(s_in.logits[b], i) <= At(s_in.logits[b], j)

\* C7: with top_k = 1 and a non-zero temperature sample_tokens returns the
\* row's highest-probability token, the first element of the descending
\* sort permutation, whatever top_p and the rng state.
C7_TopOneIsMostProbable ==
    (Sampled /\ s_in.key.some /\ Effective[1] # 0
        /\ s_in.top_k.some /\ s_in.top_k.v = 1) =>
        /\ s_out.kind = "tokens"
        /\ \A b \in 1..Len(s_in.logits) :
              /\ s_out.tokens[b] = s_out.indices[b][1]
              /\ \A j \in 0..(VocabSize - 1) : AsProbable(b, s_out.tokens[b], j)

\* C7 witness: top_k = 1 under a negative temperature picks the last token.
C7_Witness ==
    /\ Sampled /\ s_in.key.some /\ Effective[1] < 0
    /\ s_in.top_k.some /\ s_in.top_k.v = 1
    /\ s_out.kind = "tokens" /\ s_out.tokens[1] = VocabSize - 1
    /\ At(s_in.logits[1], 0) > At(s_in.logits[1], VocabSize - 1)

\* The top-p step was applied.
TopPApplied == s_pc = "done" /\ Len(s_out.probs_p) > 0

\* The top_p the top-p step works with.
EffectiveTopP == default_arg(s_in.top_p, DefaultTopP)

\* The 0-based indices of a top-k row whose cumulative probability reaches top_p.
Reaching(row) ==
    {i \in 0..(Len(row.num) - 1) :
        SumTo(row.num, i + 1) * EffectiveTopP[2] >= EffectiveTopP[1] * row.den}

\* C9: sample_top_p zeroes an entry only if it lies strictly after the first
\* index whose cumulative probability reaches top_p and leaves every other
\* entry unchanged; when the cumulative probability never reaches top_p no
\* entry is zeroed.
C9_ZeroedOnlyAfterCutoff ==
    TopPApplied =>
        \A b \in 1..Len(s_out.probs_p) :
            LET before == s_out.probs_k[b]
                after == s_out.probs_p[b]
            IN  /\ \A i \in 0..(Len(before.num) - 1) :
                      \/ At(after.num, i) = At(before.num, i)
                      \/ /\ At(after.num, i) = 0
                         /\ \E c \in Reaching(before) :
                               /\ \A d \in Reaching(before) : c <= d
                               /\ i > c
                /\ (Reaching(before) = {}) => after = before

\* C10: for a non-zero temperature and 1 <= top_k <= vocabulary size the
\* token returned for a row is a vocabulary index whose probability survived
\* truncation: among the row's top_k most probable tokens, of a rank not
\* after the top-p cutoff, and mapped through the row's own sort permutation.
C10_TokenSurvivedTruncation ==
    (Sampled /\ s_in.key.some /\ Effective[1] # 0
        /\ EffectiveTopK >= 1 /\ EffectiveTopK <= VocabSize) =>
        /\ s_out.kind = "tokens"
        /\ Len(s_out.tokens) = Len(s_in.logits)
        /\ \A b \in 1..Len(s_in.logits) :
              LET token == s_out.tokens[b]
                  rank == s_out.selected[b]
              IN  /\ token \in 0..(VocabSize - 1)
                  /\ Cardinality({j \in 0..(VocabSize - 1) :
                                     ~AsProbable(b, token, j)}) < EffectiveTopK
                  /\ rank \in 0..(EffectiveTopK - 1)
                  /\ At(s_out.probs_p[b].num, rank) > 0
                  /\ \A c \in Reaching(s_out.probs_k[b]) : rank <= c
                  /\ token = At(s_out.indices[b], rank)
                  /\ \A r \in 0..(VocabSize - 2) :
                        AsProbable(b, At(s_out.indices[b], r), At(s_out.indices[b], r + 1))
                  /\ {At(s_out.indices[b], r) : r \in 0..(VocabSize - 1)}
                        = 0..(VocabSize - 1)

\* C10 witness: two rows sorted by different permutations, the second row's
\* token drawn at rank 1 through its own permutation.
C10_Witness ==
    /\ Sampled /\ s_out.kind = "tokens" /\ Effective[1] # 0
    /\ EffectiveTopK <= VocabSize
    /\ Len(s_out.tokens) = 2
    /\ s_out.indices[1] # s_out.indices[2]
    /\ s_out.selected[2] = 1
    /\ s_out.tokens[2] = At(s_out.indices[2], 1)
    /\ s_out.tokens[2] # At(s_out.indices[1], 1)

====
